---- MODULE Spec2Model ----
(***************************************************************************)
(* A model of atwork.py: the Task tree with its lifecycle (begin, message, *)
(* step, success, fail, the with-statement protocol) and the               *)
(* CursesFormatter that renders the tasks (per-task CursesTaskInfo, the    *)
(* update algorithm, the style table).                                     *)
(*                                                                         *)
(* Encoding.                                                               *)
(*  - A Task is identified by its index in the sequence tasks; all tasks   *)
(*    share one CursesFormatter (roots are built with formatter=F,         *)
(*    subtasks inherit it from their parent).                              *)
(*  - Python's None is the integer None (-1) where the other values are    *)
(*    integers (total, parent, last_update, last_task) and the string      *)
(*    NoneStr where the other values are strings (msg, result, unit).      *)
(*  - A Python string is a TLA+ string; the text handed to print() is a    *)
(*    sequence of tokens [k, n, s]: a piece of text, a run of n copies of  *)
(*    a string, or one terminal control sequence.                          *)
(*  - time.perf_counter() reads an integer clock of ticks, which the       *)
(*    action Tick advances.  update_threshold (0.5 s) is 2 ticks, so one   *)
(*    second is 2 * update_threshold ticks.                                *)
(***************************************************************************)
EXTENDS Integers, Sequences, FiniteSets, TLC

VARIABLES
    tasks,      \* the Task objects constructed so far (a sequence of records)
    info,       \* CursesFormatter.info: task -> CursesTaskInfo
    last_task,  \* CursesFormatter.last_task
    clock,      \* what time.perf_counter() reads now
    out,        \* the text of the last print() of CursesFormatter.update
    sent,       \* history: per task, the terminal events Task forwarded to the Formatter
    hist,       \* history: per task, the messages CursesFormatter.message appended
    seen,       \* history: the tasks update has rendered with progress > 0
    scopes,     \* the with-blocks entered and not yet left (innermost last)
    ev,         \* history: the last call made by the program, in the specifications that record it
    nsteps,     \* history: per task, the step calls made, in the specifications that count them
    keep_steps  \* CursesFormatter.keep_steps

vars == <<tasks, info, last_task, clock, out, sent, hist, seen, scopes, ev, nsteps,
          keep_steps>>

\* ------------------------------------------------------------------ bounds

MaxTasks == 3       \* tasks constructed in Spec
LifeHist == 1       \* messages appended per task in SpecLife
MaxProgress == 2    \* step() calls that advance a task's counter in SpecLife
MaxScopes == 2      \* with-blocks open at once in SpecLife
MaxTotal == 3       \* largest total of the worker in SpecBar
BarHist == 2        \* messages appended per task in SpecBar
MaxRing == 7        \* messages appended per task in SpecRing
MaxChain == 4       \* tasks nested in one another in SpecStyle
MaxClock == 5       \* last tick of the clock in SpecRate
RateHist == 2       \* messages appended per task in SpecRate
ScreenHist == 6     \* messages appended to the worker in SpecScreen

\* ---------------------------------------------------------------- encoding

None == -1
NoneStr == "<None>"

Truthy(x) == x # None /\ x # 0

Max(a, b) == IF a >= b THEN a ELSE b

Min(a, b) == IF a <= b THEN a ELSE b

\* The last n elements of s (all of s when it has fewer).
LastN(s, n) == SubSeq(s, Len(s) - Min(n, Len(s)) + 1, Len(s))

\* Tokens of the printed text.
Text(s) == [k |-> "text", n |-> 1, s |-> s]

\* s * n: n copies of s, none when n <= 0.
Rep(s, n) == [k |-> "rep", n |-> Max(0, n), s |-> s]

\* '\u001b[' + str(n) + 'A': cursor up n lines.
CUU(n) == [k |-> "CUU", n |-> n, s |-> ""]

\* '\r'
CR == [k |-> "CR", n |-> 0, s |-> ""]

\* '\u001b[K': erase to the end of the line.
EL == [k |-> "EL", n |-> 0, s |-> ""]

\* '\n'
NL == [k |-> "NL", n |-> 0, s |-> ""]

\* '\u001b[J': erase to the end of the screen.
ED == [k |-> "ED", n |-> 0, s |-> ""]

\* str.zfill(w)
RECURSIVE zfill(_, _)
zfill(s, w) == IF Len(s) >= w THEN s ELSE zfill("0" \o s, w)

\* ------------------------------------------------------------------ styles

CursesMessageStyle(prefix, suffix, contents) ==
    [prefix |-> prefix, suffix |-> suffix, contents |-> contents]

CursesStyle(m, s, f, p, b) ==
    [message |-> m, success |-> s, failure |-> f, progress |-> p, bar |-> b]

\* ESC stands for the character \u001b, # for the bar's block character.
DEFAULT_STYLES ==
    << CursesStyle(
           CursesMessageStyle("ESC[37;1m== ", " ESC[37;1m==", NoneStr),
           CursesMessageStyle(" ESC[32;1m[v] ", "", ""),
           CursesMessageStyle(" ESC[31;1m[x] ", "", ""),
           CursesMessageStyle(" ESC[37;0m(", ")", "/"),
           CursesMessageStyle("ESC[37;1m[", "]", "#")),
       CursesStyle(
           CursesMessageStyle(" ESC[37;1m[*] ESC[0m", "...", NoneStr),
           CursesMessageStyle(" ESC[32;1m[v] ", "", ""),
           CursesMessageStyle(" ESC[31;1m[x] ", "", ""),
           CursesMessageStyle(" ESC[37;0m(", ")", "/"),
           CursesMessageStyle("ESC[37;1m[", "]", "#")),
       CursesStyle(
           CursesMessageStyle(" ESC[90;1m*ESC[90;1m ", "...", NoneStr),
           CursesMessageStyle(" ESC[32m[v] ", "", ""),
           CursesMessageStyle(" ESC[31m[x] ", "", ""),
           CursesMessageStyle(" ESC[37;0m(", ")", NoneStr),
           CursesMessageStyle("ESC[37;0m[", "]", "#")) >>

\* CursesFormatter.__init__
max_messages == 5

styles == DEFAULT_STYLES

update_threshold == 2

\* CursesTaskInfo.__init__
bar_width == 80

\* Clock ticks in one second (update_threshold is half a second).
TicksPerSecond == 2 * update_threshold

\* Mutant of style_for: a depth beyond the table wraps around to the first style.
style_for_Wrap(nest_level) ==
    IF nest_level >= Len(styles) THEN styles[1] ELSE styles[nest_level + 1]

\* CursesFormatter.style_for; styles[i] of the code is styles[i + 1] here.
style_for(nest_level) ==
    IF nest_level >= Len(styles) THEN styles[Len(styles)] ELSE styles[nest_level + 1]

\* ------------------------------------------------------- CursesTaskInfo

\* math.floor(math.log(total, 10)) + 1: the number of decimal digits of total
\* (the totals of this model stay below 1000, where the float logarithm is exact
\* enough for the floor).
RECURSIVE Order(_)
Order(total) == IF total < 10 THEN 1 ELSE 1 + Order(total \div 10)

\* CursesTaskInfo.unit
UnitSuffix(unit) == IF unit # NoneStr /\ unit # "" THEN " " \o unit \o "/s" ELSE "/s"

\* Mutant of CursesTaskInfo: a new task counts as having one line printed.
CursesTaskInfo_OneLine(task, start) ==
    [ start |-> start,
      last_update |-> None,
      last_printed |-> 1,
      header |-> "",
      result |-> "",
      messages |-> <<"">>,
      maxlen |-> max_messages + 1,
      bar_width |-> bar_width,
      rate |-> 0,
      order |-> IF task.total # None THEN Order(task.total) ELSE 0,
      unit |-> UnitSuffix(task.unit) ]

\* CursesTaskInfo.__init__, start being the reading of time.perf_counter().
CursesTaskInfo(task, start) ==
    [ start |-> start,
      last_update |-> None,
      last_printed |-> 0,
      header |-> "",
      result |-> "",
      messages |-> <<"">>,
      maxlen |-> max_messages + 1,
      bar_width |-> bar_width,
      rate |-> 0,
      order |-> IF task.total # None THEN Order(task.total) ELSE 0,
      unit |-> UnitSuffix(task.unit) ]

\* Mutant of DequeAppend: a deque without maxlen, nothing is evicted.
DequeAppend_Unbounded(messages, maxlen, x) == Append(messages, x)

\* Mutant of DequeAppend: a full deque keeps what it holds and drops the new entry.
DequeAppend_KeepOldest(messages, maxlen, x) ==
    IF Len(messages) < maxlen THEN Append(messages, x) ELSE messages

\* collections.deque.append on a deque with maxlen: the oldest entries fall out.
DequeAppend(messages, maxlen, x) == LastN(Append(messages, x), maxlen)

\* ------------------------------------------------------ CursesFormatter

\* CursesFormatter.update_header
update_header(task, inf, msg) ==
    LET style == style_for(task.nest_level)
    IN  [inf EXCEPT !.header = style.message.prefix \o msg \o style.message.suffix]

\* CursesFormatter.update_result
update_result(task, inf, msg, ok) ==
    LET style == style_for(task.nest_level)
    IN  IF ok
        THEN [inf EXCEPT !.result = style.success.prefix \o msg \o style.success.suffix]
        ELSE [inf EXCEPT !.result = style.failure.prefix \o msg \o style.success.suffix]

\* round(progress / seconds, 2) in hundredths, seconds being the ticks from start
\* to now over TicksPerSecond; a tie goes to the even neighbour.  Two readings of
\* the float clock always differ, so readings within one tick count as one tick apart.
Rate(progress, now, start) ==
    LET elapsed == Max(1, now - start)
        num == 100 * progress * TicksPerSecond
        q == num \div elapsed
        r == num % elapsed
    IN  IF 2 * r > elapsed \/ (2 * r = elapsed /\ q % 2 = 1) THEN q + 1 ELSE q

\* str(info.rate): the int 0 before the first sample, a float afterwards.
RateStr(h) ==
    IF h = 0 THEN "0"
    ELSE ToString(h \div 100) \o "." \o
         (IF h % 10 = 0 THEN ToString((h % 100) \div 10) ELSE zfill(ToString(h % 100), 2))

\* Mutant of StepLines: the lines are printed newest first.
RECURSIVE StepLines_NewestFirst(_, _, _, _)
StepLines_NewestFirst(indent, step_style, messages, i) ==
    IF i > Len(messages) THEN <<>>
    ELSE StepLines_NewestFirst(indent, step_style, messages, i + 1)
         \o << indent,
                Text("  " \o step_style.message.prefix \o messages[i] \o step_style.message.suffix),
                EL, NL >>

\* The sub-message lines of update: one line per entry of messages from index i on.
RECURSIVE StepLines(_, _, _, _)
StepLines(indent, step_style, messages, i) ==
    IF i > Len(messages) THEN <<>>
    ELSE << indent,
            Text("  " \o step_style.message.prefix \o messages[i] \o step_style.message.suffix),
            EL, NL >>
         \o StepLines(indent, step_style, messages, i + 1)

\* Whether update takes the branch that writes the header (line 127).
Redraws(t, inf, lt) == t = lt \/ ~Truthy(inf.last_printed)

\* Mutant of Samples: no threshold, a sample at every reading once progress > 0.
Samples_Unthrottled(task, inf, now) ==
    \/ task.progress > 0 /\ ~Truthy(inf.last_update)
    \/ Truthy(inf.last_update)

\* Whether update takes a new rate sample at the reading now (line 134).
Samples(task, inf, now) ==
    \/ task.progress > 0 /\ ~Truthy(inf.last_update)
    \/ Truthy(inf.last_update) /\ now - inf.last_update >= update_threshold

\* Mutant of BarProgress: the filled cells are rounded up.
BarProgress_RoundUp(task, inf) ==
    (inf.bar_width * task.progress + task.total - 1) \div task.total

\* Mutant of BarProgress: the cells of one step, times the steps made.
BarProgress_PerStep(task, inf) == (inf.bar_width \div task.total) * task.progress

\* The filled cells of the bar (line 149).
BarProgress(task, inf) == (inf.bar_width * task.progress) \div task.total

\* CursesFormatter.update for task t (its fields in task), with self.last_task = lt
\* and time.perf_counter() reading now.  The result holds the CursesTaskInfo
\* afterwards and the text printed.
update(t, task, inf, lt, now) ==
    LET style == style_for(task.nest_level)
        indent == Rep("  ", task.nest_level)
        redraw == Redraws(t, inf, lt)
        timed == redraw /\ task.total # None
        inf1 == IF timed /\ Samples(task, inf, now)
                THEN [inf EXCEPT !.rate = Rate(task.progress, now, inf.start),
                                 !.last_update = now]
                ELSE inf
        head == IF redraw
                THEN (IF Truthy(inf.last_printed)
                      THEN <<CUU(inf.last_printed), CR, indent>> ELSE <<>>)
                     \o <<Text(inf.header)>>
                     \o (IF task.total # None
                         THEN << Text(style.progress.prefix
                                      \o zfill(ToString(task.progress), inf.order)
                                      \o "/" \o ToString(task.total)),
                                 Text(", " \o RateStr(inf1.rate) \o inf.unit
                                      \o style.progress.suffix) >>
                         ELSE <<>>)
                ELSE <<indent>>
        steps == IF t = lt /\ (keep_steps \/ ~task.done) /\ Len(inf.messages) > 0
                 THEN StepLines(indent, style_for(task.nest_level + 1), inf.messages, 2)
                 ELSE <<>>
        hasBar == ~task.done /\ task.total # None
        progress == BarProgress(task, inf)
        blank == inf.bar_width - progress
        bar == IF hasBar
               THEN << indent, Text(style.bar.prefix), Rep(style.bar.contents, progress),
                       Rep(" ", blank), Text(style.bar.suffix), EL, NL >>
               ELSE <<>>
        lines == IF hasBar THEN 2 ELSE 1
    IN  [ inf |-> [inf1 EXCEPT !.last_printed = Max(0, Len(inf.messages) - 1) + lines],
          msg |-> head \o <<Text(inf.result), EL, NL>> \o steps \o bar \o <<ED>> ]

\* self.update(task, info) as a step: the CursesTaskInfo inf is stored back, update
\* sets last_task and prints.  seen records the renders made with progress > 0:
\* all of them in seen.any, those that wrote the header line in seen.head.
Rendered(t, task, inf, lt) ==
    LET r == update(t, task, inf, lt, clock)
    IN  /\ info' = (t :> r.inf) @@ info
        /\ last_task' = t
        /\ out' = r.msg
        /\ seen' = IF task.progress > 0
                   THEN [ any |-> seen.any \cup {t},
                          head |-> IF Redraws(t, inf, lt) THEN seen.head \cup {t}
                                   ELSE seen.head ]
                   ELSE seen

\* A Formatter method that raised before changing anything (KeyError on self.info[task]).
Raised == UNCHANGED <<info, last_task, out, hist, seen>>

\* CursesFormatter.begin
Formatter_begin(t, task, msg) ==
    LET inf0 == IF t \notin DOMAIN info THEN CursesTaskInfo(task, clock) ELSE info[t]
        inf1 == update_header(task, inf0, msg)
    IN  /\ Rendered(t, task, inf1, t)
        /\ hist' = hist

\* CursesFormatter.message
Formatter_message(t, task, msg) ==
    IF t \notin DOMAIN info THEN Raised
    ELSE LET inf1 == [info[t] EXCEPT
                         !.messages = DequeAppend(info[t].messages, info[t].maxlen, msg)]
         IN  /\ Rendered(t, task, inf1, last_task)
             /\ hist' = [hist EXCEPT ![t] = Append(@, msg)]

\* Mutant of OrDefault: only None is replaced by the default, an empty text is kept.
OrDefault_NoneOnly(msg, default) == IF msg = NoneStr THEN default ELSE msg

\* msg or default
OrDefault(msg, default) == IF msg = NoneStr \/ msg = "" THEN default ELSE msg

\* CursesFormatter.success
Formatter_success(t, task, msg) ==
    IF t \notin DOMAIN info THEN Raised
    ELSE LET inf1 == update_result(task, info[t], OrDefault(msg, "DONE"), TRUE)
         IN  /\ Rendered(t, task, inf1, last_task)
             /\ hist' = hist

\* CursesFormatter.fail
Formatter_fail(t, task, msg) ==
    IF t \notin DOMAIN info THEN Raised
    ELSE LET inf1 == update_result(task, info[t], OrDefault(msg, "FAIL"), FALSE)
         IN  /\ Rendered(t, task, inf1, last_task)
             /\ hist' = hist

\* ----------------------------------------------------------------- Task

\* Mutant of Task_init: the child takes its parent's nest_level as it is.
Task_init_SameLevel(ts, self, msg, total, unit, parent) ==
    [ msg |-> msg,
      progress |-> 0,
      total |-> total,
      parent |-> parent,
      unit |-> unit,
      done |-> FALSE,
      nest_level |-> IF parent # None THEN ts[parent].nest_level ELSE 0,
      root |-> IF parent # None THEN ts[parent].root ELSE self ]

\* Task.__init__ of the task that becomes number self, ts being the tasks that
\* exist (parent is one of them, or None); formatter is the shared one.
Task_init(ts, self, msg, total, unit, parent) ==
    [ msg |-> msg,
      progress |-> 0,
      total |-> total,
      parent |-> parent,
      unit |-> unit,
      done |-> FALSE,
      nest_level |-> IF parent # None THEN ts[parent].nest_level + 1 ELSE 0,
      root |-> IF parent # None THEN ts[parent].root ELSE self ]

\* Task.subtask: Task(*args, parent=self, **kwargs)
Task_subtask(ts, self, child, msg, total, unit) ==
    Task_init(ts, child, msg, total, unit, self)

\* Task.begin
Task_begin(t) ==
    /\ Formatter_begin(t, tasks[t], tasks[t].msg)
    /\ UNCHANGED <<tasks, sent>>

\* Task.message
Task_message(t, msg) ==
    /\ Formatter_message(t, tasks[t], msg)
    /\ UNCHANGED <<tasks, sent>>

\* Mutant of Task_step: a task that is done ignores the call.
Task_step_Guarded(t, msg) ==
    IF tasks[t].done
    THEN UNCHANGED <<tasks, sent, info, last_task, out, hist, seen>>
    ELSE LET task1 == IF tasks[t].total # None
                      THEN [tasks[t] EXCEPT !.progress = @ + 1]
                      ELSE tasks[t]
         IN  /\ tasks' = [tasks EXCEPT ![t] = task1]
             /\ sent' = sent
             /\ IF msg # NoneStr
                THEN Formatter_message(t, task1, msg)
                ELSE UNCHANGED <<info, last_task, out, hist, seen>>

\* Mutant of Task_step: the counter advances whether or not total is set.
Task_step_Always(t, msg) ==
    LET task1 == [tasks[t] EXCEPT !.progress = @ + 1]
    IN  /\ tasks' = [tasks EXCEPT ![t] = task1]
        /\ sent' = sent
        /\ IF msg # NoneStr
           THEN Formatter_message(t, task1, msg)
           ELSE UNCHANGED <<info, last_task, out, hist, seen>>

\* Task.step; msg = NoneStr is step() without a message.
Task_step(t, msg) ==
    LET task1 == IF tasks[t].total # None
                 THEN [tasks[t] EXCEPT !.progress = @ + 1]
                 ELSE tasks[t]
    IN  /\ tasks' = [tasks EXCEPT ![t] = task1]
        /\ sent' = sent
        /\ IF msg # NoneStr
           THEN Formatter_message(t, task1, msg)
           ELSE UNCHANGED <<info, last_task, out, hist, seen>>

\* Mutant of Task_success: no test of done.
Task_success_NoGuard(t, result) ==
    LET task1 == [tasks[t] EXCEPT !.done = TRUE]
    IN  /\ tasks' = [tasks EXCEPT ![t] = task1]
        /\ sent' = [sent EXCEPT ![t] = Append(@, [kind |-> "success", result |-> result])]
        /\ Formatter_success(t, task1, result)

\* Task.success; the event is recorded in sent when the Formatter is called.
Task_success(t, result) ==
    IF tasks[t].done
    THEN UNCHANGED <<tasks, sent, info, last_task, out, hist, seen>>
    ELSE LET task1 == [tasks[t] EXCEPT !.done = TRUE]
         IN  /\ tasks' = [tasks EXCEPT ![t] = task1]
             /\ sent' = [sent EXCEPT ![t] = Append(@, [kind |-> "success", result |-> result])]
             /\ Formatter_success(t, task1, result)

\* Mutant of Task_fail: no test of done.
Task_fail_NoGuard(t, result) ==
    LET task1 == [tasks[t] EXCEPT !.done = TRUE]
    IN  /\ tasks' = [tasks EXCEPT ![t] = task1]
        /\ sent' = [sent EXCEPT ![t] = Append(@, [kind |-> "fail", result |-> result])]
        /\ Formatter_fail(t, task1, result)

\* Task.fail
Task_fail(t, result) ==
    IF tasks[t].done
    THEN UNCHANGED <<tasks, sent, info, last_task, out, hist, seen>>
    ELSE LET task1 == [tasks[t] EXCEPT !.done = TRUE]
         IN  /\ tasks' = [tasks EXCEPT ![t] = task1]
             /\ sent' = [sent EXCEPT ![t] = Append(@, [kind |-> "fail", result |-> result])]
             /\ Formatter_fail(t, task1, result)

\* Task.__enter__
Task_enter(t) == Task_begin(t)

\* Mutant of Task_exit: the failure is reported without the label.
Task_exit_NoLabel(t, error) ==
    IF error THEN Task_fail(t, NoneStr) ELSE Task_success(t, NoneStr)

\* Task.__exit__; error says whether an exception leaves the block (type is set).
Task_exit(t, error) ==
    IF error THEN Task_fail(t, "Exception") ELSE Task_success(t, NoneStr)

\* ------------------------------------------------- the program's calls

TaskIds == 1..Len(tasks)

\* Task(msg, total, unit)
NewTask(msg, total, unit) ==
    /\ tasks' = Append(tasks, Task_init(tasks, Len(tasks) + 1, msg, total, unit, None))
    /\ sent' = Append(sent, <<>>)
    /\ hist' = Append(hist, <<>>)
    /\ nsteps' = Append(nsteps, 0)
    /\ UNCHANGED <<info, last_task, clock, out, seen, scopes, keep_steps>>

\* parent.subtask(msg, total, unit)
Subtask(parent, msg, total, unit) ==
    /\ tasks' = Append(tasks, Task_subtask(tasks, parent, Len(tasks) + 1, msg, total, unit))
    /\ sent' = Append(sent, <<>>)
    /\ hist' = Append(hist, <<>>)
    /\ nsteps' = Append(nsteps, 0)
    /\ UNCHANGED <<info, last_task, clock, out, seen, scopes, keep_steps>>

\* t.begin()
Begin(t) == Task_begin(t) /\ UNCHANGED <<scopes, clock, keep_steps>>

\* t.message(msg)
Message(t, msg) == Task_message(t, msg) /\ UNCHANGED <<scopes, clock, keep_steps>>

\* t.step(msg)
Step(t, msg) == Task_step(t, msg) /\ UNCHANGED <<scopes, clock, keep_steps>>

\* t.success(result)
Success(t, result) == Task_success(t, result) /\ UNCHANGED <<scopes, clock, keep_steps>>

\* t.fail(result)
Fail(t, result) == Task_fail(t, result) /\ UNCHANGED <<scopes, clock, keep_steps>>

\* with t: the block is entered.
Enter(t) ==
    /\ Task_enter(t)
    /\ scopes' = Append(scopes, [task |-> t, done0 |-> tasks[t].done, sent0 |-> Len(sent[t])])
    /\ UNCHANGED <<clock, keep_steps>>

\* The innermost with-block is left, by an exception (error) or normally.
Exit(error) ==
    /\ scopes # <<>>
    /\ Task_exit(scopes[Len(scopes)].task, error)
    /\ scopes' = SubSeq(scopes, 1, Len(scopes) - 1)
    /\ UNCHANGED <<clock, keep_steps>>

\* Time passes: the clock reads one tick more.
Tick ==
    /\ clock' = clock + 1
    /\ UNCHANGED <<tasks, info, last_task, out, sent, hist, seen, scopes, ev, nsteps,
                   keep_steps>>

\* ---- The history variable ev.  Its record holds the call, its task, whether
\* ---- the task was done before the call and, for the end of a with-block,
\* ---- whether an exception left it, whether the task was done when the block was
\* ---- entered and the number of terminal events the Formatter was sent for the
\* ---- task while the block was open.

Ev(op, t, wasDone, error, done0, events) ==
    [op |-> op, task |-> t, wasDone |-> wasDone, error |-> error, done0 |-> done0,
     events |-> events]

NoEv == Ev("none", 0, FALSE, FALSE, FALSE, 0)

\* The call op on task t is recorded.
Called(op, t) == ev' = Ev(op, t, tasks[t].done, FALSE, FALSE, 0)

\* The end of the innermost with-block is recorded.
Exited(error) ==
    LET top == scopes[Len(scopes)]
    IN  ev' = Ev("exit", top.task, tasks[top.task].done, error, top.done0,
                 Len(sent'[top.task]) - top.sent0)

\* ------------------------------------------------------ specifications

Init ==
    /\ tasks = <<>>
    /\ info = <<>>
    /\ last_task = None
    /\ clock = 1
    /\ out = <<>>
    /\ sent = <<>>
    /\ hist = <<>>
    /\ seen = [any |-> {}, head |-> {}]
    /\ scopes = <<>>
    /\ ev = NoEv
    /\ nsteps = <<>>
    /\ keep_steps = TRUE

\* ---- Spec: task trees.  Tasks without a total are constructed and nested
\* ---- freely (several roots, siblings, chains) and begun, stepped and ended.

Next ==
    \/ Len(tasks) < MaxTasks /\ NewTask("build", None, NoneStr) /\ UNCHANGED ev
    \/ \E p \in TaskIds :
        Len(tasks) < MaxTasks /\ Subtask(p, "link", None, NoneStr) /\ UNCHANGED ev
    \/ \E t \in TaskIds : Begin(t) /\ UNCHANGED <<ev, nsteps>>
    \/ \E t \in TaskIds : Step(t, NoneStr) /\ UNCHANGED <<ev, nsteps>>
    \/ \E t \in TaskIds : Success(t, NoneStr) /\ UNCHANGED <<ev, nsteps>>
    \/ \E t \in TaskIds : Fail(t, NoneStr) /\ UNCHANGED <<ev, nsteps>>

Spec == Init /\ [][Next]_vars

\* The depth the tree gives task t: 0 without a parent, else one more than the parent's.
Depth(ts, t) == IF ts[t].parent = None THEN 0 ELSE ts[ts[t].parent].nest_level + 1

\* C4: in every task tree built with Task(...) and subtask(), a task without a
\* parent has nest_level 0 and a task with a parent has its parent's nest_level
\* plus one; the nest_level (and the parent) a task was constructed with is
\* changed by no later call.
C4_NestLevel ==
    [][ /\ \A t \in 1..Len(tasks') : tasks'[t].nest_level = Depth(tasks', t)
        /\ \A t \in TaskIds :
            /\ tasks'[t].nest_level = tasks[t].nest_level
            /\ tasks'[t].parent = tasks[t].parent ]_vars

\* C4 witness: a chain of three tasks (depths 0, 1, 2) beside each other, the
\* deepest begun and ended.
C4_Witness ==
    \E t \in TaskIds :
        /\ tasks[t].parent # None
        /\ tasks[tasks[t].parent].parent # None
        /\ tasks[t].nest_level = 2
        /\ tasks[t].done
        /\ t \in DOMAIN info

\* ---- SpecLife: the lifecycle of one task.  A root task has two subtasks: the
\* ---- worker "compile", with or without a total, on which every call is made
\* ---- with every kind of argument, in and out of with-blocks, and its sibling
\* ---- "link", which is only begun (it takes the Formatter's last_task away).
\* ---- Every call is recorded in ev.

LifeTotals == {None, MaxProgress}

Msgs == {"a", "b"}

Results == {NoneStr, "", "ok"}

\* The state after root = Task("build"); root.subtask("compile", total);
\* root.subtask("link").
Family(total, unit) ==
    LET t1 == <<Task_init(<<>>, 1, "build", None, NoneStr, None)>>
        t2 == Append(t1, Task_subtask(t1, 1, 2, "compile", total, unit))
    IN  Append(t2, Task_subtask(t2, 1, 3, "link", None, NoneStr))

Worker(t) == tasks[t].msg = "compile"

Sibling(t) == tasks[t].msg = "link"

InitLife ==
    /\ \E total \in LifeTotals : tasks = Family(total, NoneStr)
    /\ info = <<>>
    /\ last_task = None
    /\ clock = 1
    /\ out = <<>>
    /\ sent = <<<<>>, <<>>, <<>>>>
    /\ hist = <<<<>>, <<>>, <<>>>>
    /\ seen = [any |-> {}, head |-> {}]
    /\ scopes = <<>>
    /\ ev = NoEv
    /\ nsteps = <<0, 0, 0>>
    /\ keep_steps = TRUE

NextLife ==
    \/ \E t \in TaskIds : Worker(t) /\ Begin(t) /\ Called("begin", t) /\ UNCHANGED nsteps
    \/ \E t \in TaskIds, msg \in Msgs :
        Worker(t) /\ Len(hist[t]) < LifeHist /\ Message(t, msg) /\ Called("message", t) /\ UNCHANGED nsteps
    \/ \E t \in TaskIds, msg \in Msgs \cup {NoneStr} :
        Worker(t) /\ (msg = NoneStr \/ Len(hist[t]) < LifeHist)
        /\ tasks[t].progress < MaxProgress /\ Step(t, msg) /\ Called("step", t) /\ UNCHANGED nsteps
    \/ \E t \in TaskIds, result \in Results :
        Worker(t) /\ Success(t, result) /\ Called("success", t) /\ UNCHANGED nsteps
    \/ \E t \in TaskIds, result \in Results :
        Worker(t) /\ Fail(t, result) /\ Called("fail", t) /\ UNCHANGED nsteps
    \/ \E t \in TaskIds :
        Worker(t) /\ Len(scopes) < MaxScopes /\ Enter(t) /\ Called("enter", t) /\ UNCHANGED nsteps
    \/ \E error \in BOOLEAN : Exit(error) /\ Exited(error) /\ UNCHANGED nsteps
    \/ \E t \in TaskIds : Sibling(t) /\ Begin(t) /\ Called("begin", t) /\ UNCHANGED nsteps

SpecLife == InitLife /\ [][NextLife]_vars

\* The result text the Formatter makes of a terminal event of task t.
ResultText(t, event) ==
    LET style == style_for(tasks[t].nest_level)
    IN  IF event.kind = "success"
        THEN style.success.prefix \o OrDefault(event.result, "DONE") \o style.success.suffix
        ELSE style.failure.prefix \o OrDefault(event.result, "FAIL") \o style.success.suffix

\* C1: of all the success and fail calls made on a task, with whatever results,
\* only the first sets done and is forwarded to the Formatter; a call on a task
\* that is done changes nothing, so done stays true and the result text stays
\* the one the first terminal call set (empty when that call came before begin).
C1_FirstTerminalOnly ==
    [][ \A t \in TaskIds :
          /\ Len(sent'[t]) <= 1
          /\ tasks'[t].done <=> Len(sent'[t]) = 1
          /\ (t \in DOMAIN info' /\ tasks'[t].done)
                => info'[t].result \in {"", ResultText(t, sent'[t][1])}
          /\ tasks[t].done =>
                /\ tasks'[t].done
                /\ sent'[t] = sent[t]
                /\ t \in DOMAIN info => info'[t].result = info[t].result
          /\ (tasks[t].done /\ ev'.op \in {"success", "fail"} /\ ev'.task = t) =>
                UNCHANGED <<tasks, info, last_task, clock, out, sent, hist, seen, scopes>>
          /\ (~tasks[t].done /\ ev'.op \in {"success", "fail"} /\ ev'.task = t) =>
                /\ tasks'[t].done
                /\ sent'[t] = <<[kind |-> ev'.op, result |-> sent'[t][1].result]>>
                /\ t \in DOMAIN info => info'[t].result = ResultText(t, sent'[t][1]) ]_vars

\* C1 witness: fail was called on a task that success("ok") had ended, and the
\* result text is still the one of success("ok").
C1_Witness ==
    /\ ev.op = "fail"
    /\ ev.wasDone
    /\ sent[ev.task] = <<[kind |-> "success", result |-> "ok"]>>
    /\ ev.task \in DOMAIN info
    /\ info[ev.task].result = ResultText(ev.task, [kind |-> "success", result |-> "ok"])

\* C2 as claimed: every with-block of a task, however it is left and whatever
\* its body calls, has exactly one terminal event of the task forwarded to the
\* Formatter while it is open.
C2_Original == ev.op = "exit" => ev.events = 1

\* C2 amended: a with-block entered while the task is not done has exactly one
\* terminal event forwarded while it is open; one entered on a task that is
\* already done has none.
C2_OncePerScope ==
    ev.op = "exit" => ev.events = (IF ev.done0 THEN 0 ELSE 1)

\* C2 witness: a with-block, entered on a task not done, whose body ended the
\* task itself and then raised: the one event is the body's.
C2_Witness ==
    /\ ev.op = "exit"
    /\ ev.error
    /\ ~ev.done0
    /\ ev.wasDone
    /\ ev.events = 1

\* The task ended with the failure "Exception".
FailedWithException(t) ==
    /\ sent[t] = <<[kind |-> "fail", result |-> "Exception"]>>
    /\ t \in DOMAIN info
    /\ info[t].result = style_for(tasks[t].nest_level).failure.prefix \o "Exception"
                        \o style_for(tasks[t].nest_level).success.suffix

\* C3 as claimed: whenever an exception leaves the with-block of a task, the
\* task is done and its terminal event is the failure "Exception".
C3_Original ==
    (ev.op = "exit" /\ ev.error) => (tasks[ev.task].done /\ FailedWithException(ev.task))

\* C3 amended: whenever an exception leaves the with-block of a task, the task
\* is done; if it was not already done when the block was left, its terminal
\* event is the failure "Exception".
C3_ExceptionFails ==
    (ev.op = "exit" /\ ev.error) =>
        /\ tasks[ev.task].done
        /\ ~ev.wasDone => FailedWithException(ev.task)

\* C3 witness: an exception left the with-block of a task that was not done.
C3_Witness ==
    /\ ev.op = "exit"
    /\ ev.error
    /\ ~ev.wasDone
    /\ FailedWithException(ev.task)

\* C5: the progress counter never decreases; it changes only in step(), by
\* exactly one per call, and only when total is set (without a total it stays
\* 0); begin, message, success and fail leave it as it is.
C5_Progress ==
    [][ \A t \in TaskIds :
          /\ tasks'[t].progress >= tasks[t].progress
          /\ tasks'[t].progress # tasks[t].progress =>
                (ev'.op = "step" /\ ev'.task = t /\ tasks[t].total # None)
          /\ (ev'.op = "step" /\ ev'.task = t /\ tasks[t].total # None) =>
                tasks'[t].progress = tasks[t].progress + 1
          /\ tasks[t].total = None => tasks'[t].progress = 0 ]_vars

\* C5 witness: a task with a total has been stepped to it, and a later
\* message has left the counter there.
C5_Witness ==
    /\ ev.op = "message"
    /\ tasks[ev.task].total # None
    /\ tasks[ev.task].progress = tasks[ev.task].total
    /\ hist[ev.task] # <<>>

\* The printed text msg holds a cursor-up sequence.
HasCursorUp(msg) == \E i \in 1..Len(msg) : msg[i].k = "CUU"

\* C8: when a task is begun for the first time while another task is the
\* last-rendered one, what is printed holds no cursor-up sequence: it starts
\* with the task's header, below the lines printed before.
C8_FirstBeginAppends ==
    [][ \A b \in TaskIds :
          ( /\ ev'.op \in {"begin", "enter"}
            /\ ev'.task = b
            /\ b \notin DOMAIN info
            /\ last_task # None
            /\ last_task # b )
          => ( /\ ~HasCursorUp(out')
               /\ out'[1] = Text(info'[b].header)
               /\ last_task' = b ) ]_vars

\* C8 witness: the sibling has just been begun for the first time (a later begin
\* of it moves the cursor up) after the worker had printed a block of two lines or more.
C8_Witness ==
    /\ ev.op = "begin"
    /\ Sibling(ev.task)
    /\ ~HasCursorUp(out)
    /\ \E a \in DOMAIN info : Worker(a) /\ info[a].last_printed >= 2

\* ---- SpecBar: the progress bar.  The worker of the family has a total of 1 to
\* ---- MaxTotal; it is begun, stepped (with and without a message, up to one
\* ---- step past its total), sent messages and ended, while its sibling may be
\* ---- begun in between.  The step calls are counted in nsteps.

BarTotals == 1..MaxTotal

InitBar ==
    /\ \E total \in BarTotals : tasks = Family(total, NoneStr)
    /\ info = <<>>
    /\ last_task = None
    /\ clock = 1
    /\ out = <<>>
    /\ sent = <<<<>>, <<>>, <<>>>>
    /\ hist = <<<<>>, <<>>, <<>>>>
    /\ seen = [any |-> {}, head |-> {}]
    /\ scopes = <<>>
    /\ ev = NoEv
    /\ nsteps = <<0, 0, 0>>
    /\ keep_steps = TRUE

\* The step call on task t is counted.
Stepped(t) == nsteps' = [nsteps EXCEPT ![t] = @ + 1]

NextBar ==
    \/ \E t \in TaskIds : Worker(t) /\ Begin(t) /\ Called("begin", t) /\ UNCHANGED nsteps
    \/ \E t \in TaskIds :
        Worker(t) /\ Len(hist[t]) < BarHist /\ Message(t, "a") /\ Called("message", t)
        /\ UNCHANGED nsteps
    \/ \E t \in TaskIds, msg \in {NoneStr, "b"} :
        Worker(t) /\ (msg = NoneStr \/ Len(hist[t]) < BarHist)
        /\ nsteps[t] <= tasks[t].total /\ Step(t, msg) /\ Called("step", t) /\ Stepped(t)
    \/ \E t \in TaskIds :
        Worker(t) /\ Success(t, NoneStr) /\ Called("success", t) /\ UNCHANGED nsteps
    \/ \E t \in TaskIds : Sibling(t) /\ Begin(t) /\ Called("begin", t) /\ UNCHANGED nsteps

SpecBar == InitBar /\ [][NextBar]_vars

\* The printed text msg holds the bar of task t with all bar_width cells filled and
\* no blank after them.
HasFullBar(t, msg) ==
    \E i \in 1..(Len(msg) - 1) :
        /\ msg[i] = Rep(style_for(tasks[t].nest_level).bar.contents, bar_width)
        /\ msg[i + 1] = Rep(" ", 0)

\* The step taken is a call on task t in which the Formatter renders it: a begin,
\* or a message or step(msg) that reaches CursesFormatter.message on a begun task.
RendersNow(t) ==
    /\ ev'.task = t
    /\ t \in DOMAIN info'
    /\ ev'.op \in {"begin", "enter"} \/ Len(hist'[t]) > Len(hist[t])

\* C6: a task with total T >= 1 on which exactly T step calls have been made has
\* progress T, and every render of it made then, while it is begun and not done,
\* draws the bar with bar_width filled cells and no blank padding.
C6_FullBar ==
    [][ \A t \in TaskIds :
          /\ (tasks'[t].total # None /\ nsteps'[t] = tasks'[t].total) =>
                tasks'[t].progress = tasks'[t].total
          /\ ( /\ tasks'[t].total # None
               /\ nsteps'[t] = tasks'[t].total
               /\ ~tasks'[t].done
               /\ RendersNow(t) )
             => HasFullBar(t, out') ]_vars

\* C6 witness: the worker with total MaxTotal has taken its last step with a
\* message while its sibling was the last-rendered task, and the text printed
\* holds the full bar.
C6_Witness ==
    /\ ev.op = "step"
    /\ tasks[ev.task].total = MaxTotal
    /\ nsteps[ev.task] = MaxTotal
    /\ tasks[ev.task].progress = MaxTotal
    /\ ~tasks[ev.task].done
    /\ last_task = ev.task
    /\ HasFullBar(ev.task, out)
    /\ out[1].k = "rep"

\* ---- SpecRing: the ring buffer of sub-messages.  The worker (without a total)
\* ---- is begun and sent up to MaxRing messages, by message(msg) and step(msg),
\* ---- before and after its begin, while its sibling may be begun in between.

InitRing ==
    /\ tasks = Family(None, NoneStr)
    /\ info = <<>>
    /\ last_task = None
    /\ clock = 1
    /\ out = <<>>
    /\ sent = <<<<>>, <<>>, <<>>>>
    /\ hist = <<<<>>, <<>>, <<>>>>
    /\ seen = [any |-> {}, head |-> {}]
    /\ scopes = <<>>
    /\ ev = NoEv
    /\ nsteps = <<0, 0, 0>>
    /\ keep_steps = TRUE

NextRing ==
    \/ \E t \in TaskIds : Worker(t) /\ Begin(t) /\ UNCHANGED <<ev, nsteps>>
    \/ \E t \in TaskIds, msg \in Msgs :
        Worker(t) /\ Len(hist[t]) < MaxRing /\ Message(t, msg) /\ UNCHANGED <<ev, nsteps>>
    \/ \E t \in TaskIds, msg \in Msgs :
        Worker(t) /\ Len(hist[t]) < MaxRing /\ Step(t, msg) /\ UNCHANGED <<ev, nsteps>>
    \/ \E t \in TaskIds : Sibling(t) /\ Begin(t) /\ UNCHANGED <<ev, nsteps>>

SpecRing == InitRing /\ [][NextRing]_vars

\* C7: the ring buffer of a begun task never holds more than max_messages + 1
\* entries; after n messages it holds the most recent min(n, max_messages + 1)
\* of them in arrival order, behind the empty sentinel entry as long as that has
\* not been evicted (n <= max_messages); a message that arrives at a full buffer
\* evicts the oldest entry; so up to max_messages messages are all held, in order.
C7_RingBuffer ==
    [][ \A t \in DOMAIN info' :
          LET capacity == max_messages + 1
              n == Len(hist'[t])
              messages == info'[t].messages
          IN  /\ Len(messages) <= capacity
              /\ info'[t].maxlen = capacity
              /\ messages = (IF n < capacity THEN <<"">> ELSE <<>>)
                            \o LastN(hist'[t], Min(n, capacity))
              /\ n <= max_messages => SubSeq(messages, 2, Len(messages)) = hist'[t]
              /\ (t \in DOMAIN info /\ n > Len(hist[t])) =>
                    messages = (IF Len(info[t].messages) = capacity
                                THEN Tail(info[t].messages) ELSE info[t].messages)
                               \o <<hist'[t][n]>> ]_vars

\* C7 witness: the worker has been sent max_messages + 2 messages, the first "a"
\* and the second "b": the sentinel and the first message are evicted and the
\* buffer holds the last max_messages + 1 messages, beginning with the second.
C7_Witness ==
    \E t \in DOMAIN info :
        /\ Len(hist[t]) = max_messages + 2
        /\ hist[t][1] = "a"
        /\ hist[t][2] = "b"
        /\ Len(info[t].messages) = max_messages + 1
        /\ info[t].messages = Tail(hist[t])
        /\ info[t].messages[1] = "b"

\* ---- SpecStyle: deep nesting.  A chain of up to MaxChain tasks is built, each
\* ---- the subtask of the one before, so that the deepest lie at and beyond the
\* ---- length of the style table; each is begun and sent a message.

NextStyle ==
    \/ tasks = <<>> /\ NewTask("build", None, NoneStr) /\ UNCHANGED ev
    \/ /\ tasks # <<>>
       /\ Len(tasks) < MaxChain
       /\ Subtask(Len(tasks), "link", None, NoneStr)
       /\ UNCHANGED ev
    \/ \E t \in TaskIds : Begin(t) /\ UNCHANGED <<ev, nsteps>>
    \/ \E t \in TaskIds : hist[t] = <<>> /\ Message(t, "a") /\ UNCHANGED <<ev, nsteps>>

SpecStyle == Init /\ [][NextStyle]_vars

\* The style of the table for depth d: the d-th (counted from 0) when there is
\* one, the last one otherwise.
Clamped(d) == styles[IF d < Len(styles) THEN d + 1 ELSE Len(styles)]

\* The sub-message line that update prints for message s of a task at depth d.
StepLine(d, s) ==
    Text("  " \o Clamped(d + 1).message.prefix \o s \o Clamped(d + 1).message.suffix)

\* C9: for every depth d >= 0 the style lookup gives the style at index d when d
\* is below the length of the style table and the last style of the table
\* otherwise, for the depth of a task and for the depth + 1 of its sub-message
\* lines alike: the header of every begun task is made with the style of its
\* depth, and a sub-message line printed for it with the style of its depth + 1.
C9_StyleClamp ==
    [][ \A t \in DOMAIN info' :
          LET d == tasks'[t].nest_level
          IN  /\ d >= 0
              /\ style_for(d) = Clamped(d)
              /\ style_for(d + 1) = Clamped(d + 1)
              /\ style_for(d) \in {styles[i] : i \in 1..Len(styles)}
              /\ info'[t].header = Clamped(d).message.prefix \o tasks'[t].msg
                                   \o Clamped(d).message.suffix
              /\ (Len(hist'[t]) > Len(hist[t]) /\ last_task = t) =>
                    \E i \in 1..Len(out') : out'[i] = StepLine(d, hist'[t][Len(hist'[t])])
      ]_vars

\* C9 witness: a task at the depth of the table's length has been begun and sent
\* a message; its header is made with the last style and so is the sub-message
\* line printed (the lookup for depth + 1, one past the table's length).
C9_Witness ==
    \E t \in DOMAIN info :
        /\ tasks[t].nest_level = Len(styles)
        /\ last_task = t
        /\ hist[t] = <<"a">>
        /\ info[t].header = styles[Len(styles)].message.prefix \o tasks[t].msg
                            \o styles[Len(styles)].message.suffix
        /\ \E i \in 1..Len(out) :
              out[i] = Text("  " \o styles[Len(styles)].message.prefix \o "a"
                            \o styles[Len(styles)].message.suffix)

\* ---- SpecRate: the rate samples.  The worker has a total; it is begun, stepped
\* ---- and sent messages while the clock advances up to MaxClock and while its
\* ---- sibling may be begun in between (the worker's next render then leaves
\* ---- the header line, and with it the rate, alone).

InitRate ==
    /\ tasks = Family(MaxProgress, NoneStr)
    /\ info = <<>>
    /\ last_task = None
    /\ clock = 1
    /\ out = <<>>
    /\ sent = <<<<>>, <<>>, <<>>>>
    /\ hist = <<<<>>, <<>>, <<>>>>
    /\ seen = [any |-> {}, head |-> {}]
    /\ scopes = <<>>
    /\ ev = NoEv
    /\ nsteps = <<0, 0, 0>>
    /\ keep_steps = TRUE

NextRate ==
    \/ \E t \in TaskIds : Worker(t) /\ Begin(t) /\ UNCHANGED <<ev, nsteps>>
    \/ \E t \in TaskIds :
        Worker(t) /\ Len(hist[t]) < RateHist /\ Message(t, "a") /\ UNCHANGED <<ev, nsteps>>
    \/ \E t \in TaskIds, msg \in {NoneStr, "b"} :
        Worker(t) /\ (msg = NoneStr \/ Len(hist[t]) < RateHist)
        /\ tasks[t].progress < tasks[t].total /\ Step(t, msg) /\ UNCHANGED <<ev, nsteps>>
    \/ \E t \in TaskIds : Sibling(t) /\ Begin(t) /\ UNCHANGED <<ev, nsteps>>
    \/ clock < MaxClock /\ Tick

SpecRate == InitRate /\ [][NextRate]_vars

\* The time of task t's last rate sample before the step (None: no sample yet).
LastSample(t) == IF t \in DOMAIN info THEN info[t].last_update ELSE None

\* The rate cached for task t before the step.
CachedRate(t) == IF t \in DOMAIN info THEN info[t].rate ELSE 0

InitScreen ==
    /\ \E total \in LifeTotals : tasks = Family(total, NoneStr)
    /\ info = <<>>
    /\ last_task = None
    /\ clock = 1
    /\ out = <<>>
    /\ sent = <<<<>>, <<>>, <<>>>>
    /\ hist = <<<<>>, <<>>, <<>>>>
    /\ seen = [any |-> {}, head |-> {}]
    /\ scopes = <<>>
    /\ ev = NoEv
    /\ nsteps = <<0, 0, 0>>
    /\ keep_steps \in BOOLEAN

NextScreen ==
    \/ \E t \in TaskIds : Worker(t) /\ Begin(t) /\ Called("begin", t) /\ UNCHANGED nsteps
    \/ \E t \in TaskIds :
        Worker(t) /\ Len(hist[t]) < ScreenHist /\ Message(t, ToString(Len(hist[t]) + 1))
        /\ Called("message", t)
        /\ UNCHANGED nsteps
    \/ \E t \in TaskIds :
        Worker(t) /\ tasks[t].progress < MaxProgress /\ tasks[t].total # None
        /\ Step(t, NoneStr) /\ Called("step", t) /\ UNCHANGED nsteps
    \/ \E t \in TaskIds :
        Worker(t) /\ Success(t, NoneStr) /\ Called("success", t) /\ UNCHANGED nsteps
    \/ \E t \in TaskIds :
        Worker(t) /\ Fail(t, "no") /\ Called("fail", t) /\ UNCHANGED nsteps
    \/ \E t \in TaskIds : Sibling(t) /\ Begin(t) /\ Called("begin", t) /\ UNCHANGED nsteps
    \/ \E t \in TaskIds :
        Sibling(t) /\ hist[t] = <<>> /\ Message(t, "b") /\ Called("message", t)
        /\ UNCHANGED nsteps
    \/ \E t \in TaskIds :
        Sibling(t) /\ Success(t, "ok") /\ Called("success", t) /\ UNCHANGED nsteps

SpecScreen == InitScreen /\ [][NextScreen]_vars

\* The step taken is a call on task t that makes the Formatter render it: a begin,
\* a message that reaches a begun task, or the terminal event of a begun task.
Renders(t) ==
    /\ ev'.task = t
    /\ t \in DOMAIN info'
    /\ \/ ev'.op \in {"begin", "enter"}
       \/ Len(hist'[t]) > Len(hist[t])
       \/ Len(sent'[t]) > Len(sent[t])

\* The lines the printed text msg ends with a newline.
Lines(msg) == Cardinality({i \in 1..Len(msg) : msg[i].k = "NL"})

\* The numbers of lines by which the printed text msg moves the cursor up.
CursorUps(msg) == {msg[i].n : i \in {j \in 1..Len(msg) : msg[j].k = "CUU"}}

\* C11: at every Formatter event on a task, the render moves the cursor up if
\* and only if the task was the last-rendered task when the event arrived and
\* had been rendered before, and then by the line count recorded at its
\* previous render; a render of a task that was not the last-rendered one moves
\* no cursor up.
C11_CursorUp ==
    [][ \A t \in TaskIds :
          Renders(t) =>
            /\ HasCursorUp(out') <=> (last_task = t /\ t \in DOMAIN info)
            /\ HasCursorUp(out') => CursorUps(out') = {info[t].last_printed} ]_vars

\* C12: after every render of a task, the line count recorded for it
\* (last_printed) is the number of lines the render printed: the header/result
\* line, the sub-message lines printed and the bar line if there is one.
C12_LinesRecorded ==
    [][ \A t \in TaskIds : Renders(t) => info'[t].last_printed = Lines(out') ]_vars

\* C13: no render of a task moves the cursor onto a line last written for
\* another task: whenever a render moves the cursor up, the render before it
\* was one of the same task and the cursor moves up by no more than the lines
\* that render printed.
C13_OwnLinesOnly ==
    [][ \A t \in TaskIds :
          (Renders(t) /\ HasCursorUp(out')) =>
            /\ last_task = t
            /\ \A n \in CursorUps(out') : n <= Lines(out) ]_vars

\* The two pieces of the progress fragment update prints for task t in the state
\* after the step.
ProgressFragment(t) ==
    LET style == style_for(tasks'[t].nest_level)
    IN  << Text(style.progress.prefix
                \o zfill(ToString(tasks'[t].progress), info'[t].order)
                \o "/" \o ToString(tasks'[t].total)),
           Text(", " \o RateStr(info'[t].rate) \o info'[t].unit \o style.progress.suffix) >>

\* The printed text msg only positions the cursor before its i-th token.
LeadsTo(msg, i) == \A j \in 1..(i - 1) : msg[j].k \in {"CUU", "CR", "rep"}

\* C14: every render of a task, an in-place redraw or a fresh block below
\* another task's lines, prints on its first line the task's header, then the
\* progress fragment when total is set, then the result.
C14_HeaderFirst ==
    [][ \A t \in TaskIds :
          Renders(t) =>
            \E i \in 1..Len(out') :
                LET rest == SubSeq(out', i + 1, Len(out'))
                    frag == IF tasks'[t].total # None THEN ProgressFragment(t) ELSE <<>>
                    line == frag \o <<Text(info'[t].result), EL, NL>>
                IN  /\ out'[i] = Text(info'[t].header)
                    /\ LeadsTo(out', i)
                    /\ Len(rest) >= Len(line)
                    /\ SubSeq(rest, 1, Len(line)) = line ]_vars

\* The printed text msg holds a bar line (a run of the bar's fill character).
HasBar(t, msg) ==
    \E i \in 1..Len(msg) :
        msg[i].k = "rep" /\ msg[i].s = style_for(tasks[t].nest_level).bar.contents

\* The printed text msg holds a bar of filled fill characters and then blank
\* blanks, with nothing between them.
HasBarOf(t, msg, filled, blank) ==
    \E i \in 1..(Len(msg) - 1) :
        /\ msg[i] = [k |-> "rep", n |-> filled,
                     s |-> style_for(tasks[t].nest_level).bar.contents]
        /\ msg[i + 1] = [k |-> "rep", n |-> blank, s |-> " "]

\* C15 as claimed: a render prints a bar line exactly when the task is not done
\* and has a total, and every bar has floor(bar_width * progress / total) filled
\* cells and then bar_width minus that many blank cells, bar_width cells in all,
\* whatever progress the step calls have reached.
C15_Original ==
    [][ \A t \in TaskIds :
          Renders(t) =>
            LET filled == (bar_width * tasks'[t].progress) \div tasks'[t].total
            IN  /\ HasBar(t, out') <=> (~tasks'[t].done /\ tasks'[t].total # None)
                /\ HasBar(t, out') => HasBarOf(t, out', filled, bar_width - filled) ]_vars

\* C15 amended: a render prints a bar line exactly when the task is not done and
\* has a total, and as long as progress is at most total the bar has
\* floor(bar_width * progress / total) filled cells and then bar_width minus
\* that many blank cells, bar_width cells in all.
C15_BarLine ==
    [][ \A t \in TaskIds :
          Renders(t) =>
            LET filled == (bar_width * tasks'[t].progress) \div tasks'[t].total
            IN  /\ HasBar(t, out') <=> (~tasks'[t].done /\ tasks'[t].total # None)
                /\ (HasBar(t, out') /\ tasks'[t].progress <= tasks'[t].total) =>
                      /\ HasBarOf(t, out', filled, bar_width - filled)
                      /\ filled >= 0
                      /\ bar_width - filled >= 0 ]_vars

\* C15 witness: the worker with total 3 has been rendered at progress 2: its bar
\* has 53 filled cells and 27 blank ones.
C15_Witness ==
    \E t \in DOMAIN info :
        /\ last_task = t
        /\ tasks[t].total = 3
        /\ tasks[t].progress = 2
        /\ ~tasks[t].done
        /\ HasBarOf(t, out, 53, 27)

\* self.last_task when update starts in the step taken on task t: begin has set
\* it to t, the other events find it as the last render left it.
LastAtUpdate(t) == IF ev'.op \in {"begin", "enter"} THEN t ELSE last_task

\* The sub-message lines in the printed text msg of a task at depth d whose
\* messages so far are h (the empty sentinel entry counts as a message here).
StepTexts(msg, d, h) ==
    LET IsStepLine(x) ==
            /\ x.k = "text"
            /\ x = StepLine(d, "") \/ \E i \in 1..Len(h) : x = StepLine(d, h[i])
    IN  SelectSeq(msg, IsStepLine)

\* C16: a render prints sub-message lines only when the task is the Formatter's
\* last-rendered task as update starts, and not when the task is done and
\* keep_steps is off; it then prints one line per ring-buffer entry but the
\* oldest, oldest first: at most max_messages lines, for the most recent messages.
C16_StepLines ==
    [][ \A t \in TaskIds :
          Renders(t) =>
            LET d == tasks'[t].nest_level
                messages == info'[t].messages
                printed == StepTexts(out', d, hist'[t])
                recent == LastN(hist'[t], Min(Len(hist'[t]), max_messages))
                buffered == [i \in 1..(Len(messages) - 1) |-> StepLine(d, messages[i + 1])]
                latest == [i \in 1..Len(recent) |-> StepLine(d, recent[i])]
            IN  /\ printed # <<>> => LastAtUpdate(t) = t /\ (keep_steps \/ ~tasks'[t].done)
                /\ (LastAtUpdate(t) = t /\ (keep_steps \/ ~tasks'[t].done)) =>
                      /\ printed = buffered
                      /\ buffered = latest
                /\ Len(printed) <= max_messages ]_vars

\* C16 witness: the worker has been sent max_messages + 1 messages while it was
\* the last-rendered task; the last render printed the lines of the messages
\* "2" to "6" and none for the first one.
C16_Witness ==
    \E t \in DOMAIN info :
        /\ ev.op = "message"
        /\ ev.task = t
        /\ last_task = t
        /\ Len(hist[t]) = max_messages + 1
        /\ StepTexts(out, tasks[t].nest_level, hist[t])
             = [i \in 1..max_messages |-> StepLine(tasks[t].nest_level, ToString(i + 1))]

\* C17: the result text of a begun task is empty as long as the task is not
\* done; the first terminal event of a begun task sets it to the success prefix
\* (success) or the failure prefix (fail) followed by the result text given, or
\* by "DONE" / "FAIL" when none or an empty one is given, and so it stays.
C17_ResultText ==
    [][ \A t \in DOMAIN info' :
          LET style == styles[Min(tasks'[t].nest_level, Len(styles) - 1) + 1]
              e == sent'[t][1]
              given == e.result # NoneStr /\ e.result # ""
          IN  /\ ~tasks'[t].done => info'[t].result = ""
              /\ (t \in DOMAIN info /\ ~tasks[t].done /\ tasks'[t].done) =>
                    /\ e.kind = "success" =>
                          info'[t].result
                            = style.success.prefix \o (IF given THEN e.result ELSE "DONE")
                    /\ e.kind = "fail" =>
                          info'[t].result
                            = style.failure.prefix \o (IF given THEN e.result ELSE "FAIL")
              /\ (t \in DOMAIN info /\ tasks[t].done) => info'[t].result = info[t].result
      ]_vars

\* C17 witness: fail("") has ended a begun task, whose result text is the
\* failure prefix and "FAIL".
C17_Witness ==
    \E t \in DOMAIN info :
        /\ ev.op = "fail"
        /\ ev.task = t
        /\ ~ev.wasDone
        /\ sent[t] = <<[kind |-> "fail", result |-> ""]>>
        /\ info[t].result = styles[tasks[t].nest_level + 1].failure.prefix \o "FAIL"

\* C18: last_printed is 0 in a new CursesTaskInfo, up to the task's first
\* render, and from 1 to max_messages + 2 after every render; so update finds it
\* zero in the first render of a task (which moves no cursor up) and in no other
\* (a later render of the task as last-rendered task moves the cursor up).
C18_LinesCount ==
    [][ \A t \in DOMAIN info' :
          /\ info'[t].last_printed >= 1
          /\ info'[t].last_printed <= max_messages + 2
          /\ (Renders(t) /\ t \notin DOMAIN info) =>
                /\ CursesTaskInfo(tasks[t], clock).last_printed = 0
                /\ ~HasCursorUp(out')
          /\ (Renders(t) /\ t \in DOMAIN info) =>
                /\ info[t].last_printed # 0
                /\ LastAtUpdate(t) = t => CursorUps(out') = {info[t].last_printed} ]_vars

\* C18 witness: a task with a total that is not done has been rendered with a
\* full ring buffer: max_messages sub-message lines, the header line and the bar
\* line are counted.
C18_Witness ==
    \E t \in DOMAIN info :
        /\ last_task = t
        /\ info[t].last_printed = max_messages + 2
        /\ Len(info[t].messages) = max_messages + 1
        /\ Lines(out) = max_messages + 2

\* C19 as claimed: once a (begun) task is done, no step, message, success or
\* fail call on it changes its progress, its ring buffer or its result text,
\* and none prints anything more for it.
C19_Original ==
    [][ \A t \in DOMAIN info :
          (tasks[t].done /\ ev'.task = t /\ ev'.op \in {"step", "message", "success", "fail"})
          => /\ tasks'[t].progress = tasks[t].progress
             /\ info'[t].messages = info[t].messages
             /\ info'[t].result = info[t].result
             /\ hist' = hist
             /\ out' = out
             /\ last_task' = last_task ]_vars

\* C19 amended: once a task is done, a success or fail call on it changes
\* nothing and prints nothing; a step or message call leaves done and the result
\* text as they are, but step still advances the counter of a task with a total,
\* and a message (also the one of a step) is still appended to the ring buffer
\* of a begun task and rendered.
C19_AfterDone ==
    [][ \A t \in TaskIds :
          (tasks[t].done /\ ev'.task = t) =>
            /\ ev'.op \in {"success", "fail"} =>
                  UNCHANGED <<tasks, info, last_task, out, hist, sent>>
            /\ ev'.op \in {"step", "message"} =>
                  /\ tasks'[t].done
                  /\ sent' = sent
                  /\ t \in DOMAIN info => info'[t].result = info[t].result
                  /\ Len(hist'[t]) > Len(hist[t]) =>
                        /\ info'[t].messages[Len(info'[t].messages)] = hist'[t][Len(hist'[t])]
                        /\ last_task' = t
                        /\ out'[Len(out')] = ED
            /\ ev'.op = "step" =>
                  tasks'[t].progress
                    = tasks[t].progress + (IF tasks[t].total # None THEN 1 ELSE 0)
            /\ ev'.op = "message" =>
                  /\ tasks'[t].progress = tasks[t].progress
                  /\ t \in DOMAIN info => Len(hist'[t]) = Len(hist[t]) + 1 ]_vars

\* C19 witness: a task with a total was ended by success("ok") and then sent a
\* message, which is in its ring buffer, while the result text is still the one
\* of success("ok").
C19_Witness ==
    \E t \in DOMAIN info :
        /\ ev.op = "message"
        /\ ev.task = t
        /\ ev.wasDone
        /\ tasks[t].total # None
        /\ sent[t] = <<[kind |-> "success", result |-> "ok"]>>
        /\ Len(info[t].messages) = 2
        /\ info[t].messages[2] = hist[t][1]
        /\ info[t].result = style_for(tasks[t].nest_level).success.prefix \o "ok"

\* The positions of the printed text msg that hold the header text.
HeaderAt(msg, header) == {i \in 1..Len(msg) : msg[i] = Text(header)}

\* The indentation (in units of two spaces) the printed text msg puts right
\* before its i-th token.
LeadIndent(msg, i) ==
    IF i > 1 /\ msg[i - 1].k = "rep" /\ msg[i - 1].s = "  " THEN msg[i - 1].n ELSE 0

\* C20: a task's header line has the same leading indentation in its first
\* render as in every later in-place redraw: whenever two renders of a task
\* follow one another and both print its header, the second indents it as the
\* first did.
C20_SameIndent ==
    [][ \A t \in DOMAIN info :
          (Renders(t) /\ last_task = t) =>
            \A i \in HeaderAt(out, info[t].header), j \in HeaderAt(out', info'[t].header) :
                LeadIndent(out', j) = LeadIndent(out, i) ]_vars

====
